---------------------------- MODULE Spec2Model ----------------------------
(***************************************************************************)
(* A model of indicar/process.py: the Landsat 8 scene pipeline             *)
(* Process.__init__ / Process.full (make_rgb, make_ndvi, move_bqa,         *)
(* change_detection, cleanup) and the bounds helpers.                      *)
(*                                                                         *)
(* Files are named by the attribute or local variable that holds their     *)
(* path.  A raster is a record [w, h, gt, data]; a file that exists but    *)
(* cannot be opened by gdal.Open holds NoRaster.                           *)
(*                                                                         *)
(* Pixel samples are IEEE floats, modelled as exact rationals plus the     *)
(* three special values NaN, +Inf and -Inf.  The arithmetic is Python's    *)
(* float arithmetic without the rounding (the sums and differences of two  *)
(* float32 samples are computed in double precision by the interpreter).   *)
(*                                                                         *)
(* The module is Python 2 code (implicit relative import, str buffers):    *)
(* "/" on two floats is float division and raises only for a zero divisor; *)
(* gdal.Open returns None, and does not raise, for a file it cannot open;  *)
(* subprocess.call returns the exit status and does not raise on failure.  *)
(***************************************************************************)
EXTENDS Integers, Sequences, FiniteSets, TLC

VARIABLES
    pc,      \* the statement of __init__ / full() that runs next
    files,   \* the paths for which os.path.isfile / os.path.exists is true
    rast,    \* the raster each raster file holds
    archive, \* the members of the compressed scene package
    calls,   \* the tool invocations made so far, in order
    stdout,  \* the messages printed so far, in order
    err      \* the exception that ended the run, "none" if none

vars == <<pc, files, rast, archive, calls, stdout, err>>

\* The largest raster width and height explored.
MaxDim == 2

Dims == 1..MaxDim

----------------------------------------------------------------------------
(* Floats.                                                                 *)

RECURSIVE GCD(_, _)
GCD(a, b) == IF b = 0 THEN a ELSE GCD(b, a % b)

Abs(n) == IF n < 0 THEN -n ELSE n

\* The finite float n/d (d > 0), in lowest terms.
Fin(n, d) ==
    LET g == GCD(Abs(n), d)
    IN  [k |-> "fin", n |-> n \div g, d |-> d \div g]

NaN  == [k |-> "nan",  n |-> 0, d |-> 1]
PInf == [k |-> "pinf", n |-> 0, d |-> 1]
NInf == [k |-> "ninf", n |-> 0, d |-> 1]
Zero == Fin(0, 1)

FNeg(a) ==
    CASE a.k = "nan"  -> NaN
      [] a.k = "pinf" -> NInf
      [] a.k = "ninf" -> PInf
      [] OTHER        -> Fin(-a.n, a.d)

\* a + b
FAdd(a, b) ==
    CASE a.k = "nan" \/ b.k = "nan"        -> NaN
      [] a.k = "pinf" /\ b.k = "ninf"      -> NaN
      [] a.k = "ninf" /\ b.k = "pinf"      -> NaN
      [] a.k = "pinf" \/ b.k = "pinf"      -> PInf
      [] a.k = "ninf" \/ b.k = "ninf"      -> NInf
      [] OTHER -> Fin(a.n * b.d + b.n * a.d, a.d * b.d)

\* a - b
FSub(a, b) == FAdd(a, FNeg(b))

\* a == b
FEq(a, b) == a.k # "nan" /\ b.k # "nan" /\ a = b

\* a < b
FLt(a, b) ==
    CASE a.k = "nan" \/ b.k = "nan" -> FALSE
      [] a.k = "pinf"               -> FALSE
      [] b.k = "ninf"               -> FALSE
      [] a.k = "ninf"               -> TRUE
      [] b.k = "pinf"               -> TRUE
      [] OTHER                      -> a.n * b.d < b.n * a.d

\* a <= b
FLe(a, b) == FLt(a, b) \/ FEq(a, b)

Sign(a) ==
    CASE a.k = "pinf" -> 1
      [] a.k = "ninf" -> -1
      [] a.k = "nan"  -> 0
      [] OTHER        -> IF a.n > 0 THEN 1 ELSE IF a.n < 0 THEN -1 ELSE 0

\* a / b for b # 0 (Python raises ZeroDivisionError for b == 0; the one
\* division of the program is guarded, see NdviRatio).
FDiv(a, b) ==
    CASE a.k = "nan" \/ b.k = "nan"       -> NaN
      [] a.k # "fin" /\ b.k # "fin"       -> NaN
      [] a.k # "fin" -> IF Sign(a) * Sign(b) > 0 THEN PInf ELSE NInf
      [] b.k # "fin" -> Zero
      [] OTHER -> Fin(Sign(b) * a.n * b.d, Abs(b.n) * a.d)

----------------------------------------------------------------------------
(* Rasters.                                                                *)

NoRaster == [w |-> 0, h |-> 0, gt |-> <<0, 0, 0, 0, 0, 0>>, data |-> <<>>]

\* A north-up geotransform with unit pixels and origin (ox, oy).
NorthUp(ox, oy) == <<ox, 1, 0, oy, 0, -1>>

\* The raster of w x h pixels in which the pixels whose line and column
\* numbers have an even sum hold v and the others hold u.
Chequer(w, h, gt, v, u) ==
    [w |-> w, h |-> h, gt |-> gt,
     data |-> [l \in 1..h |-> [i \in 1..w |->
                  IF (l + i) % 2 = 0 THEN v ELSE u]]]

\* gdal.Open(path, GA_ReadOnly) is not None
Opens(f) == f \in files /\ rast[f] # NoRaster

----------------------------------------------------------------------------
(* make_ndvi                                                               *)

bqa_values == {61440, 59424, 57344, 56320, 53248, 52256, 52224,
               49184, 49152, 48128, 45056, 43040, 39936, 36896, 36864, 32768,
               31744, 28672}

\* bqa_tuple[i] in bqa_values
InBqaValues(q) == \E c \in bqa_values : FEq(q, Fin(c, 1))

\* B6Low with the comparison taken as <=.
B6LowInclusive(g) == FLe(g, Fin(1, 10))

\* b6_tuple[i] < 0.1
B6Low(g) == FLt(g, Fin(1, 10))

\* NdviRatio with the sum divided by the difference.
NdviRatioInverted(nir, red) ==
    LET ndvi_lower == FSub(nir, red)
        ndvi_upper == FAdd(nir, red)
    IN  IF FEq(ndvi_lower, Zero) THEN Zero ELSE FDiv(ndvi_upper, ndvi_lower)

\* NdviRatio with the difference taken as red - nir.
NdviRatioSwapped(nir, red) ==
    LET ndvi_lower == FAdd(nir, red)
        ndvi_upper == FSub(red, nir)
    IN  IF FEq(ndvi_lower, Zero) THEN Zero ELSE FDiv(ndvi_upper, ndvi_lower)

\* The else branch of the pixel loop: the guarded quotient.
NdviRatio(nir, red) ==
    LET ndvi_lower == FAdd(nir, red)
        ndvi_upper == FSub(nir, red)
    IN  IF FEq(ndvi_lower, Zero) THEN Zero ELSE FDiv(ndvi_upper, ndvi_lower)

PixelOk(v)  == [err |-> "none", v |-> v]
PixelErr(e) == [err |-> e, v |-> Zero]

\* One turn of "for i in range(len(red_tuple))": the tuples are indexed in
\* the order bqa, b6, nir, red, each only when its branch is reached, and
\* indexing past the end of a tuple raises IndexError.
NdviPixel(bqa_tuple, b6_tuple, nir_tuple, red_tuple, i) ==
    IF i > Len(bqa_tuple) THEN PixelErr("IndexError")
    ELSE IF InBqaValues(bqa_tuple[i]) THEN PixelOk(Zero)
    ELSE IF i > Len(b6_tuple) THEN PixelErr("IndexError")
    ELSE IF B6Low(b6_tuple[i]) THEN PixelOk(Zero)
    ELSE IF i > Len(nir_tuple) THEN PixelErr("IndexError")
    ELSE PixelOk(NdviRatio(nir_tuple[i], red_tuple[i]))

\* The pixel loop of one line, from pixel i on; acc is outputLine.
RECURSIVE NdviLine(_, _, _, _, _, _)
NdviLine(bqa_tuple, b6_tuple, nir_tuple, red_tuple, i, acc) ==
    IF i > Len(red_tuple) THEN [err |-> "none", line |-> acc]
    ELSE LET p == NdviPixel(bqa_tuple, b6_tuple, nir_tuple, red_tuple, i)
         IN  IF p.err # "none" THEN [err |-> p.err, line |-> acc]
             ELSE NdviLine(bqa_tuple, b6_tuple, nir_tuple, red_tuple, i + 1,
                           Append(acc, p.v))

\* band.ReadRaster(0, line, band.XSize, 1, ...) followed by struct.unpack:
\* a line outside the band makes ReadRaster return None, and unpacking
\* None raises.
ReadsLine(band, line) == line <= band.h

\* The line loop from line on; acc holds the lines written to outDataset.
RECURSIVE NdviLines(_, _, _, _, _, _)
NdviLines(b4, b5, b6, bqa, line, acc) ==
    IF line > b4.h THEN [err |-> "none", out |-> acc]
    ELSE IF ~ (ReadsLine(b5, line) /\ ReadsLine(b6, line) /\ ReadsLine(bqa, line))
         THEN [err |-> "ReadError", out |-> acc]
    ELSE LET r == NdviLine(bqa.data[line], b6.data[line], b5.data[line],
                           b4.data[line], 1, <<>>)
         IN  IF r.err # "none" THEN [err |-> r.err, out |-> acc]
             ELSE NdviLines(b4, b5, b6, bqa, line + 1, Append(acc, r.line))


----------------------------------------------------------------------------
(* Paths.                                                                  *)

\* The files of self.src_image_path, the temporary working directory.
TempFiles == {"b4", "b5", "b6", "bqa", "mtl", "b4_toa", "b5_toa", "b6_toa",
              "vrt", "ndvi_warp", "last_ndvi_warp", "changes",
              "changes_mask", "sieve", "detection_shp"}

\* The files of self.delivery_path.
DeliveryFiles == {"rgb", "ndvi", "last_ndvi", "bqa_delivery",
                  "detection_geojson"}

Folders == {"src_image_path", "delivery_path"}

\* The files whose raster content the program reads.
RasterFiles == {"b4", "b5", "b6", "bqa", "b4_toa", "b5_toa", "b6_toa",
                "ndvi", "last_ndvi"}

ArchiveMembers == {"b4", "b5", "b6", "bqa", "mtl"}

Range(s) == {s[i] : i \in DOMAIN s}

----------------------------------------------------------------------------
(* Tool invocations.                                                       *)

\* The exit statuses of an external tool: 0, or a failure.
ExitCodes == {0, 1}

NoBounds == <<>>

\* subprocess.call(argv): an external tool run to its end; status is what
\* call() returns.
ExtCall(tool, ins, out, opt, status) ==
    [tool |-> tool, ins |-> ins, out |-> out, bounds |-> NoBounds,
     opt |-> opt, status |-> status, ext |-> TRUE]

\* A call of one of the gdal_operations functions.
PyCall(tool, ins, out, bounds, opt) ==
    [tool |-> tool, ins |-> ins, out |-> out, bounds |-> bounds,
     opt |-> opt, status |-> 0, ext |-> FALSE]

\* An extent with no area: minX >= maxX or minY >= maxY.
Degenerate(b) == b[1] >= b[3] \/ b[2] >= b[4]

\* Whether call c, run when the files fs exist, writes its output: its
\* inputs exist, it did not fail, and a resampling has an extent to fill.
Writes(c, fs) ==
    /\ c.status = 0
    /\ Range(c.ins) \subseteq fs
    /\ c.bounds # NoBounds => ~ Degenerate(c.bounds)

\* The files after the calls cs have run in order, starting from fs.
RECURSIVE After(_, _)
After(cs, fs) ==
    IF cs = <<>> THEN fs
    ELSE After(Tail(cs), IF Writes(Head(cs), fs) THEN fs \cup {Head(cs).out}
                         ELSE fs)

\* An external tool does not exit 0 when one of its inputs is missing.
RECURSIVE Plausible(_, _)
Plausible(cs, fs) ==
    IF cs = <<>> THEN TRUE
    ELSE LET c == Head(cs)
         IN  /\ (c.ext /\ c.status = 0) => Range(c.ins) \subseteq fs
             /\ Plausible(Tail(cs), After(<<c>>, fs))

----------------------------------------------------------------------------
(* Bounds helpers.                                                         *)

get_image_bounds(r) ==
    LET width  == r.w
        height == r.h
        gt     == r.gt
        minx   == gt[1]
        miny   == gt[4] + width * gt[5] + height * gt[6]
        maxx   == gt[1] + width * gt[2] + height * gt[3]
        maxy   == gt[4]
    IN  <<<<minx, miny>>, <<maxx, maxy>>>>

\* list.sort() of a list of two numbers
Sort2(a, b) == IF a <= b THEN <<a, b>> ELSE <<b, a>>

get_intersection_bounds(image1, image2) ==
    LET img1_bounds == get_image_bounds(image1)
        img2_bounds == get_image_bounds(image2)
        minx == Sort2(img1_bounds[1][1], img2_bounds[1][1])
        miny == Sort2(img1_bounds[1][2], img2_bounds[1][2])
        maxx == Sort2(img1_bounds[2][1], img2_bounds[2][1])
        maxy == Sort2(img1_bounds[2][2], img2_bounds[2][2])
    IN  <<minx[2], miny[2], maxx[1], maxy[1]>>

----------------------------------------------------------------------------
(* Process.__init__                                                        *)

Abort(e) ==
    /\ pc' = "aborted"
    /\ err' = e

\* check_create_folder on both folders, then extract: tar's exit status is
\* what call() returns, and __init__ goes on whatever it is.  A tar that
\* succeeds leaves the members of the archive in src_image_path.
Construct ==
    /\ pc = "init"
    /\ \E status \in ExitCodes :
          LET made == Folders \ files
              got  == IF status = 0 THEN DOMAIN archive ELSE {}
          IN  /\ files' = files \cup Folders \cup got
              /\ rast' = [f \in RasterFiles |->
                            IF f \in got THEN archive[f] ELSE rast[f]]
              /\ calls' = Append(calls,
                    ExtCall("tar", <<"zip_image">>, "src_image_path", "-jxf",
                            status))
              /\ stdout' = stdout
                    \o (IF "src_image_path" \in made
                        THEN <<"src_image_path folder created">> ELSE <<>>)
                    \o (IF "delivery_path" \in made
                        THEN <<"delivery_path folder created">> ELSE <<>>)
                    \o <<"Extracting">>
    /\ pc' = "make_rgb"
    /\ UNCHANGED <<archive, err>>

----------------------------------------------------------------------------
(* Process.make_rgb                                                        *)

MakeRgb ==
    /\ pc = "make_rgb"
    /\ \E s1, s2 \in ExitCodes :
          LET cs == << ExtCall("gdalbuildvrt", <<"b6", "b5", "b4">>, "vrt",
                               "-separate", s1),
                       ExtCall("gdal_translate", <<"vrt">>, "rgb",
                               "COMPRESS=LZW", s2) >>
          IN  /\ Plausible(cs, files)
              /\ calls' = calls \o cs
              /\ files' = After(cs, files)
    /\ stdout' = Append(stdout, "Created RGB file")
    /\ pc' = "make_ndvi"
    /\ UNCHANGED <<rast, archive, err>>


----------------------------------------------------------------------------
(* Process.make_ref_toa                                                    *)

\* Top-of-atmosphere reflectance of a digital number, with the rescaling
\* factors of the Landsat 8 metadata (2.0E-5 and -0.1) and the sun overhead.
Reflectance(dn) ==
    IF dn.k = "fin" THEN Fin(2 * dn.n - 10000 * dn.d, 100000 * dn.d) ELSE dn

ToaOf(raw) ==
    [raw EXCEPT !.data = [l \in DOMAIN raw.data |->
                            [i \in DOMAIN raw.data[l] |->
                                Reflectance(raw.data[l][i])]]]

RawOf(toa) ==
    CASE toa = "b4_toa" -> "b4"
      [] toa = "b5_toa" -> "b5"
      [] toa = "b6_toa" -> "b6"

ToaFiles == {"b4_toa", "b5_toa", "b6_toa"}

\* Landsat8(self.mtl).reflectanceToa([b4, b5, b6], outname='_toa.TIF'): the
\* calibrated bands it writes, one for each raw band it can open.
Calibrated == {t \in ToaFiles : Opens(RawOf(t))}

\* The files and the rasters once make_ref_toa has returned.
FilesAfterToa ==
    IF "mtl" \in files THEN files \cup Calibrated ELSE files

RastAfterToa ==
    IF "mtl" \in files
    THEN [f \in RasterFiles |->
            IF f \in Calibrated THEN ToaOf(rast[RawOf(f)]) ELSE rast[f]]
    ELSE rast

----------------------------------------------------------------------------
(* Process.make_ndvi                                                       *)

\* b4 is None or b5 is None or b6 is None or bqa is None
SomeNotOpened(fs, rs) ==
    \E f \in {"b4_toa", "b5_toa", "b6_toa", "bqa"} :
        f \notin fs \/ rs[f] = NoRaster

MakeNdvi ==
    /\ pc = "make_ndvi"
    /\ LET fs  == FilesAfterToa
           rs  == RastAfterToa
           out == IF "mtl" \in files THEN stdout
                  ELSE Append(stdout, "MTL file not found")
       IN  IF SomeNotOpened(fs, rs)
           THEN /\ stdout' = Append(out, "Some of the datasets could not be opened")
                /\ files' = fs
                /\ rast' = rs
                /\ pc' = "move_bqa"
                /\ err' = err
           ELSE LET b4 == rs["b4_toa"]
                    r  == NdviLines(b4, rs["b5_toa"], rs["b6_toa"], rs["bqa"],
                                    1, <<>>)
                IN  /\ files' = fs \cup {"ndvi"}
                    /\ rast' = [rs EXCEPT !["ndvi"] =
                                  [w |-> b4.w, h |-> b4.h, gt |-> b4.gt,
                                   data |-> r.out]]
                    /\ IF r.err = "none"
                       THEN /\ stdout' = Append(out, "NDVI Created")
                            /\ pc' = "move_bqa"
                            /\ err' = err
                       ELSE /\ stdout' = out
                            /\ Abort(r.err)
    /\ UNCHANGED <<archive, calls>>

----------------------------------------------------------------------------
(* Process.move_bqa                                                        *)

MoveBqa ==
    /\ pc = "move_bqa"
    /\ IF "bqa" \in files
       THEN /\ files' = (files \ {"bqa"}) \cup {"bqa_delivery"}
            /\ stdout' = stdout
       ELSE /\ files' = files
            /\ stdout' = Append(stdout, "BQA file not found")
    /\ pc' = "change_detection"
    /\ UNCHANGED <<rast, archive, calls, err>>

----------------------------------------------------------------------------
(* Process.change_detection                                                *)

\* BothPresent with "or" for "and".
EitherPresent(fs) == "ndvi" \in fs \/ "last_ndvi" \in fs

\* os.path.isfile(self.ndvi) and os.path.isfile(last_ndvi)
BothPresent(fs) == "ndvi" \in fs /\ "last_ndvi" \in fs

\* get_image_bounds(self.ndvi) != get_image_bounds(last_ndvi)
ExtentsDiffer(cur, prior) == get_image_bounds(cur) # get_image_bounds(prior)

\* AlignCalls with the subtraction left on the original files.
AlignCallsOnOriginals(cur, prior) ==
    IF ExtentsDiffer(cur, prior)
    THEN LET bounds == get_intersection_bounds(cur, prior)
         IN  << PyCall("warp_image", <<"ndvi">>, "ndvi_warp", bounds, ""),
                PyCall("warp_image", <<"last_ndvi">>, "last_ndvi_warp",
                       bounds, ""),
                PyCall("subtract", <<"ndvi", "last_ndvi">>,
                       "changes", NoBounds, "") >>
    ELSE << PyCall("subtract", <<"ndvi", "last_ndvi">>, "changes",
                   NoBounds, "") >>

\* The calls of the alignment step, in order.
AlignCalls(cur, prior) ==
    IF ExtentsDiffer(cur, prior)
    THEN LET bounds == get_intersection_bounds(cur, prior)
         IN  << PyCall("warp_image", <<"ndvi">>, "ndvi_warp", bounds, ""),
                PyCall("warp_image", <<"last_ndvi">>, "last_ndvi_warp",
                       bounds, ""),
                PyCall("subtract", <<"ndvi_warp", "last_ndvi_warp">>,
                       "changes", NoBounds, "") >>
    ELSE << PyCall("subtract", <<"ndvi", "last_ndvi">>, "changes",
                   NoBounds, "") >>

\* The calls that follow the subtraction, in order.
DetectCalls(s1, s2, s3) ==
    << PyCall("mask_image", <<"changes">>, "changes_mask", NoBounds, "-0.08"),
       ExtCall("gdal_sieve.py", <<"changes_mask">>, "sieve", "-st 33", s1),
       ExtCall("gdal_polygonize.py", <<"sieve">>, "detection_shp",
               "ESRI Shapefile", s2),
       ExtCall("ogr2ogr", <<"detection_shp">>, "detection_geojson",
               "EPSG:4674", s3) >>

ChangeDetection ==
    /\ pc = "change_detection"
    /\ IF BothPresent(files)
       THEN IF ~ (Opens("ndvi") /\ Opens("last_ndvi"))
            THEN \* get_image_bounds: ds is None, ds.RasterXSize raises
                 /\ Abort("AttributeError")
                 /\ UNCHANGED <<files, calls, stdout>>
            ELSE \E s1, s2, s3 \in ExitCodes :
                    LET cs == AlignCalls(rast["ndvi"], rast["last_ndvi"])
                              \o DetectCalls(s1, s2, s3)
                    IN  /\ Plausible(cs, files)
                        /\ calls' = calls \o cs
                        /\ files' = After(cs, files)
                        /\ stdout' = Append(stdout, "Change detection created")
                        /\ pc' = "cleanup"
                        /\ err' = err
       ELSE /\ stdout' = Append(stdout, "Change detection was not executed")
            /\ pc' = "cleanup"
            /\ UNCHANGED <<files, calls, err>>
    /\ UNCHANGED <<rast, archive>>

----------------------------------------------------------------------------
(* Process.cleanup                                                         *)

\* shutil.rmtree(self.src_image_path); a folder that is not there (ENOENT)
\* is not an error.
Cleanup ==
    /\ pc = "cleanup"
    /\ files' = files \ (TempFiles \cup {"src_image_path"})
    /\ pc' = "done"
    /\ UNCHANGED <<rast, archive, calls, stdout, err>>


----------------------------------------------------------------------------
(* Process.full                                                            *)

Next ==
    \/ Construct
    \/ MakeRgb
    \/ MakeNdvi
    \/ MoveBqa
    \/ ChangeDetection
    \/ Cleanup

----------------------------------------------------------------------------
(* The scenes a run starts from.                                           *)

\* The geotransform of the scene being processed.
SceneGt == NorthUp(0, 10)

\* The geotransforms of the prior scene's index: the same grid, a grid
\* shifted by one pixel east, a grid east of every scene explored, and a
\* grid shifted by one pixel south.
PriorGeoTransforms ==
    {NorthUp(0, 10), NorthUp(1, 10), NorthUp(MaxDim, 10), NorthUp(0, 9)}

\* The digital numbers of the archive's bands (a clear pixel).
DigitalNumber(m) ==
    CASE m = "b4"  -> Fin(10000, 1)
      [] m = "b5"  -> Fin(25000, 1)
      [] m = "b6"  -> Fin(20000, 1)
      [] m = "bqa" -> Fin(20480, 1)

Uniform(w, h, gt, v) == Chequer(w, h, gt, v, v)

NoRasters == [f \in RasterFiles |-> NoRaster]

\* A run of Process(zip_image).full() on a fresh working directory: the
\* archive holds any of its members, the delivery folder holds, or not, the
\* index of the prior scene (readable or not) and an index of this scene
\* left by an earlier run.
Init ==
    /\ pc = "init"
    /\ calls = <<>>
    /\ stdout = <<>>
    /\ err = "none"
    /\ \E w \in Dims, h \in Dims, members \in SUBSET ArchiveMembers,
          hasPrior \in BOOLEAN, hasNdvi \in BOOLEAN :
       \E prior \in {NoRaster} \cup {Uniform(w, h, gt, Fin(1, 2)) :
                                        gt \in PriorGeoTransforms} :
          /\ (~ hasPrior) => prior = NoRaster
          /\ archive = [m \in members |->
                          IF m = "mtl" THEN NoRaster
                          ELSE Uniform(w, h, SceneGt, DigitalNumber(m))]
          /\ files = (IF hasPrior THEN {"delivery_path", "last_ndvi"} ELSE {})
                     \cup (IF hasNdvi THEN {"delivery_path", "ndvi"} ELSE {})
          /\ rast = [NoRasters EXCEPT
                        !["last_ndvi"] = prior,
                        !["ndvi"] = IF hasNdvi
                                    THEN Uniform(w, h, SceneGt, Fin(3, 5))
                                    ELSE NoRaster]

Spec == Init /\ [][Next]_vars

\* The samples of a pixel the index computation is explored on.
QualitySamples == {Fin(61440, 1), Fin(28672, 1), Fin(20480, 1), NaN}
GateSamples    == {Fin(9, 100), Fin(1, 10), Fin(1, 2), NaN}
RatioSamples   == {Zero, Fin(1, 2), Fin(-1, 2), Fin(3, 10), PInf, NInf, NaN}

\* A clear pixel with index (3/5 - 1/5) / (3/5 + 1/5) = 1/2.
BgQuality == Fin(20480, 1)
BgGate    == Fin(1, 2)
BgNir     == Fin(3, 5)
BgRed     == Fin(1, 5)

\* The four inputs of make_ndvi, left in the working directory.
NdviInputs == {"b4_toa", "b5_toa", "b6_toa", "bqa"}

\* A run on an empty archive whose working directory holds the calibrated
\* bands and the quality band of an earlier run, all on one grid, with any
\* samples in the pixels of even line + column.
InitPixel ==
    /\ pc = "init"
    /\ calls = <<>>
    /\ stdout = <<>>
    /\ err = "none"
    /\ archive = <<>>
    /\ files = Folders \cup NdviInputs
    /\ \E w \in Dims, h \in Dims, q \in QualitySamples, g \in GateSamples,
          nir \in RatioSamples, red \in RatioSamples :
          rast = [NoRasters EXCEPT
                    !["b4_toa"] = Chequer(w, h, SceneGt, red, BgRed),
                    !["b5_toa"] = Chequer(w, h, SceneGt, nir, BgNir),
                    !["b6_toa"] = Chequer(w, h, SceneGt, g, BgGate),
                    !["bqa"]    = Chequer(w, h, SceneGt, q, BgQuality)]

SpecPixel == InitPixel /\ [][Next]_vars

\* The same run with each of the four inputs on a grid of its own, and a
\* flagged or a clear quality code in the pixels of even line + column.
InitGrid ==
    /\ pc = "init"
    /\ calls = <<>>
    /\ stdout = <<>>
    /\ err = "none"
    /\ archive = <<>>
    /\ files = Folders \cup NdviInputs
    /\ \E size \in [NdviInputs -> Dims \X Dims],
          q \in {Fin(61440, 1), BgQuality} :
          rast = [NoRasters EXCEPT
                    !["b4_toa"] = Uniform(size["b4_toa"][1], size["b4_toa"][2],
                                          SceneGt, BgRed),
                    !["b5_toa"] = Uniform(size["b5_toa"][1], size["b5_toa"][2],
                                          SceneGt, BgNir),
                    !["b6_toa"] = Uniform(size["b6_toa"][1], size["b6_toa"][2],
                                          SceneGt, BgGate),
                    !["bqa"]    = Chequer(size["bqa"][1], size["bqa"][2],
                                          SceneGt, q, BgQuality)]

SpecGrid == InitGrid /\ [][Next]_vars


----------------------------------------------------------------------------
(* Properties of the index computation.                                    *)

Printed(msg) == \E k \in DOMAIN stdout : stdout[k] = msg

\* make_ndvi has written its whole output raster.
NdviCreated == Printed("NDVI Created")

\* The pixels of the output raster, as <<line, column>>.
OutPixels == {<<l, i>> : l \in 1..rast["ndvi"].h, i \in 1..rast["ndvi"].w}

OutAt(p)     == rast["ndvi"].data[p[1]][p[2]]
QualityAt(p) == rast["bqa"].data[p[1]][p[2]]
GateAt(p)    == rast["b6_toa"].data[p[1]][p[2]]
NirAt(p)     == rast["b5_toa"].data[p[1]][p[2]]
RedAt(p)     == rast["b4_toa"].data[p[1]][p[2]]

One      == Fin(1, 1)
MinusOne == Fin(-1, 1)

\* The quality code is one of the invalid codes.
Flagged(p) == \E c \in bqa_values : QualityAt(p) = Fin(c, 1)

\* The pixel passes both masks.
PassesMasks(p) == ~ Flagged(p) /\ ~ FLt(GateAt(p), Fin(1, 10))

\* The reference decision list of the index.
ReferenceIndex(p) ==
    IF Flagged(p) THEN Zero
    ELSE IF FLt(GateAt(p), Fin(1, 10)) THEN Zero
    ELSE IF FEq(FAdd(NirAt(p), RedAt(p)), Zero) THEN Zero
    ELSE FDiv(FSub(NirAt(p), RedAt(p)), FAdd(NirAt(p), RedAt(p)))

\* C2: every pixel of the raster written by make_ndvi holds the value of
\* the reference decision list at that pixel: 0 for a flagged quality
\* code, else 0 for a gate value below 0.1, else 0 for a zero sum of the
\* ratio bands, else their difference divided by their sum; and the raster
\* has every line and column of band 4.
C2_IndexIsDecisionList ==
    NdviCreated =>
        /\ Len(rast["ndvi"].data) = rast["b4_toa"].h
        /\ \A l \in 1..rast["ndvi"].h :
              Len(rast["ndvi"].data[l]) = rast["b4_toa"].w
        /\ \A p \in OutPixels : OutAt(p) = ReferenceIndex(p)

\* A pixel whose gate value is exactly 0.1 and whose quality code is clear
\* got the quotient 1/4, next to a clear pixel that got 1/2.
C2_Witness ==
    /\ NdviCreated
    /\ \E p \in OutPixels :
          /\ ~ Flagged(p)
          /\ GateAt(p) = Fin(1, 10)
          /\ OutAt(p) = Fin(1, 4)
    /\ \E p \in OutPixels : OutAt(p) = Fin(1, 2)

NonNegative(x) == FLe(Zero, x)

InUnitRange(x) == FLe(MinusOne, x) /\ FLe(x, One)

\* C9 as stated: the index of every pixel whose two ratio-band values are
\* non-negative lies in [-1, 1].
C9_Original ==
    NdviCreated =>
        \A p \in OutPixels :
            (NonNegative(NirAt(p)) /\ NonNegative(RedAt(p)))
                => InUnitRange(OutAt(p))

\* C9, amended: the index of every pixel whose two ratio-band values are
\* non-negative and finite lies in [-1, 1].
C9_BoundedWhenFinite ==
    NdviCreated =>
        \A p \in OutPixels :
            (/\ NonNegative(NirAt(p)) /\ NirAt(p).k = "fin"
             /\ NonNegative(RedAt(p)) /\ RedAt(p).k = "fin")
                => InUnitRange(OutAt(p))

\* A pixel with finite positive ratio bands that passes both masks and got
\* a quotient strictly between 0 and 1.
C9_Witness ==
    /\ NdviCreated
    /\ \E p \in OutPixels :
          /\ PassesMasks(p)
          /\ NirAt(p) = Fin(1, 2)
          /\ RedAt(p) = Fin(3, 10)
          /\ OutAt(p) = Fin(1, 4)

\* numerator + denominator of the pixel, numerator being the difference
\* and denominator the sum of the ratio bands.
NumPlusDen(p) ==
    FAdd(FSub(NirAt(p), RedAt(p)), FAdd(NirAt(p), RedAt(p)))

\* C10 as stated: a pixel that passes both masks and has
\* numerator + denominator = 0 gets the index 0.
C10_Original ==
    NdviCreated =>
        \A p \in OutPixels :
            (PassesMasks(p) /\ FEq(NumPlusDen(p), Zero)) => OutAt(p) = Zero

\* C10, amended: a pixel that passes both masks and has
\* numerator + denominator = 0 gets the index 0 when its denominator is 0,
\* and the index -1 otherwise.
C10_ZeroOnlyForZeroSum ==
    NdviCreated =>
        \A p \in OutPixels :
            (PassesMasks(p) /\ FEq(NumPlusDen(p), Zero)) =>
                OutAt(p) = IF FEq(FAdd(NirAt(p), RedAt(p)), Zero)
                           THEN Zero ELSE MinusOne

\* A pixel that passes both masks with numerator + denominator = 0 and a
\* denominator that is not 0, which got -1.
C10_Witness ==
    /\ NdviCreated
    /\ \E p \in OutPixels :
          /\ PassesMasks(p)
          /\ NirAt(p) = Zero
          /\ RedAt(p) = Fin(1, 2)
          /\ FEq(NumPlusDen(p), Zero)
          /\ OutAt(p) = MinusOne

\* The four inputs of make_ndvi do not all have the same width and height.
GridsDiffer ==
    \E f \in NdviInputs, g \in NdviInputs :
        rast[f].w # rast[g].w \/ rast[f].h # rast[g].h

\* C8 as stated: whenever the grids of the four inputs differ, make_ndvi
\* fails and does not complete an output raster.
C8_GridMismatchFails ==
    (GridsDiffer /\ pc \notin {"init", "make_rgb", "make_ndvi"}) =>
        (err # "none" /\ ~ NdviCreated)


----------------------------------------------------------------------------
(* Properties of the pipeline.                                             *)

\* The invocations of tool made so far, as the set of their places in calls.
CallsOf(tool) == {k \in DOMAIN calls : calls[k].tool = tool}

\* The steps of change_detection.
DetectionTools == {"warp_image", "subtract", "mask_image", "gdal_sieve.py",
                   "gdal_polygonize.py", "ogr2ogr"}

\* C1: a change_detection that starts with the current or the prior index
\* file missing invokes no warp, subtract, mask, sieve, polygonize or
\* conversion step, creates no file (so none in the delivery location),
\* raises nothing, and full() goes on to cleanup.
C1_SkippedWhenAnIndexIsMissing ==
    [][ (pc = "change_detection"
            /\ ("ndvi" \notin files \/ "last_ndvi" \notin files))
        => /\ calls' = calls
           /\ files' = files
           /\ err' = "none"
           /\ pc' = "cleanup" ]_vars

\* change_detection was skipped with the current index present and the
\* prior index missing: no step of it ran and no detection file exists.
C1_Witness ==
    /\ pc = "cleanup"
    /\ stdout[Len(stdout)] = "Change detection was not executed"
    /\ "ndvi" \in files
    /\ "last_ndvi" \notin files
    /\ "detection_geojson" \notin files
    /\ \A k \in DOMAIN calls : calls[k].tool \notin DetectionTools

\* change_detection ran its steps to the end.
DetectionRan == Printed("Change detection created")

Max(a, b) == IF a >= b THEN a ELSE b
Min(a, b) == IF a <= b THEN a ELSE b

\* <<minX, minY, maxX, maxY>> of a raster, from its geotransform.
Extent(r) ==
    << r.gt[1],
       r.gt[4] + r.w * r.gt[5] + r.h * r.gt[6],
       r.gt[1] + r.w * r.gt[2] + r.h * r.gt[3],
       r.gt[4] >>

Intersection(a, b) ==
    <<Max(a[1], b[1]), Max(a[2], b[2]), Min(a[3], b[3]), Min(a[4], b[4])>>

CurExtent   == Extent(rast["ndvi"])
PriorExtent == Extent(rast["last_ndvi"])

\* C3: when change_detection ran with both index files, then: if the two
\* extents are equal in all four bounds, no resampling was invoked and the
\* one subtraction took the two original files; if they differ, the current
\* and the prior index were each resampled once, onto the intersection of
\* the two extents, both before the one subtraction, which took the two
\* resampled files.
C3_AlignmentDecision ==
    DetectionRan =>
        /\ Cardinality(CallsOf("subtract")) = 1
        /\ IF CurExtent = PriorExtent
           THEN /\ CallsOf("warp_image") = {}
                /\ \A k \in CallsOf("subtract") :
                      calls[k].ins = <<"ndvi", "last_ndvi">>
           ELSE /\ Cardinality(CallsOf("warp_image")) = 2
                /\ \E i \in CallsOf("warp_image"), j \in CallsOf("warp_image") :
                      /\ calls[i].ins = <<"ndvi">>
                      /\ calls[i].out = "ndvi_warp"
                      /\ calls[j].ins = <<"last_ndvi">>
                      /\ calls[j].out = "last_ndvi_warp"
                      /\ calls[i].bounds = Intersection(CurExtent, PriorExtent)
                      /\ calls[j].bounds = calls[i].bounds
                      /\ \A k \in CallsOf("subtract") :
                            /\ i < k
                            /\ j < k
                            /\ calls[k].ins = <<"ndvi_warp", "last_ndvi_warp">>

\* change_detection ran on two overlapping index rasters of different
\* extents, resampled both and wrote the difference of the resampled files.
C3_Witness ==
    /\ DetectionRan
    /\ CurExtent # PriorExtent
    /\ ~ Degenerate(Intersection(CurExtent, PriorExtent))
    /\ Cardinality(CallsOf("warp_image")) = 2
    /\ {"ndvi_warp", "last_ndvi_warp", "changes"} \subseteq files

\* Both index files exist and can be opened, their extents differ and do
\* not overlap.
DisjointIndexes ==
    /\ Opens("ndvi")
    /\ Opens("last_ndvi")
    /\ CurExtent # PriorExtent
    /\ Degenerate(Intersection(CurExtent, PriorExtent))

\* C4 as stated: on index rasters whose extents do not overlap, change
\* detection fails: full() does not get past it, and neither a resampling
\* nor a subtraction nor a later step is invoked.
C4_DisjointExtentsFail ==
    DisjointIndexes =>
        /\ pc \notin {"cleanup", "done"}
        /\ \A k \in DOMAIN calls : calls[k].tool \notin DetectionTools

\* C5 as stated: an external tool that exits non-zero ends the run with an
\* error, so that no later stage runs.
C5_ExitStatusChecked ==
    \A k \in DOMAIN calls :
        (calls[k].ext /\ calls[k].status # 0) =>
            (pc = "aborted" /\ err # "none" /\ k = Len(calls))

\* make_ndvi could not open one of its four inputs.
NdviOpenFailed == Printed("Some of the datasets could not be opened")

\* C6 as stated: once make_ndvi could not open an input, full() runs none
\* of move_bqa, change_detection and cleanup.
C6_OpenFailureAborts ==
    NdviOpenFailed => pc \notin {"change_detection", "cleanup", "done"}

\* Some stage hit a hard error: an input raster could not be opened, or an
\* external tool exited non-zero.
HardError ==
    \/ NdviOpenFailed
    \/ \E k \in DOMAIN calls : calls[k].ext /\ calls[k].status # 0

\* C7 as stated: a run in which some stage hit a hard error ends with the
\* working directory and the files left in it still there.
C7_NoCleanupAfterHardError ==
    (HardError /\ pc \in {"done", "aborted"}) =>
        /\ pc = "aborted"
        /\ "src_image_path" \in files

=============================================================================
